---------------------------- MODULE Spec2Model ----------------------------
(***************************************************************************)
(* Model of the container pricing calculator (src/App.tsx, the variant    *)
(* with a user-edited product catalog, lines 1230-2678).                  *)
(*                                                                         *)
(* JavaScript numbers are modelled as exact rationals extended with the   *)
(* IEEE special values: a number is a pair <<n, d>> with d >= 0,          *)
(*    d > 0           the rational n/d in lowest terms,                    *)
(*    <<1, 0>>        +Infinity,                                           *)
(*    <<-1, 0>>       -Infinity,                                           *)
(*    <<0, 0>>        NaN.                                                 *)
(* Binary rounding of finite values is not modelled (arithmetic on finite *)
(* values is exact), and -0 is identified with +0: every divisor in the    *)
(* modelled code is either an input read through `parseFloat(..) || 0`     *)
(* (never -0) or guarded by `> 0`, so the sign of a zero never decides a   *)
(* result.  `undefined` is the empty tuple.                                *)
(***************************************************************************)
EXTENDS Integers, Sequences, FiniteSets, TLC

VARIABLES inputs, results, summary, edits,
          orders, clock, orderName, showSaveDialog, loading, pending, outcome,
          productDocs, productsChanged, savedOrders, activeTab, awaiting,
          viewMode, columnVisibility

vars == <<inputs, results, summary, edits,
          orders, clock, orderName, showSaveDialog, loading, pending, outcome,
          productDocs, productsChanged, savedOrders, activeTab, awaiting,
          viewMode, columnVisibility>>

\* the Firestore 'orders' collection with its clock, and the state of the
\* save dialog: the name typed, whether the dialog is shown, the loading
\* flag, the saveOrder calls handleSaveOrder is awaiting, and what the last
\* caller of a save was told
storeVars == <<orders, clock, orderName, showSaveDialog, loading, pending, outcome>>

\* the Firestore 'products' collection, the list of orders shown on the
\* orders tab, the selected tab, and the store calls other than saveOrder
\* that a handler or effect is awaiting
appVars == <<productDocs, savedOrders, activeTab, awaiting>>

\* the view mode and the per-column visibility switches of the results table
viewVars == <<viewMode, columnVisibility>>

---------------------------------------------------------------------------
(* Numbers *)

Abs(i) == IF i < 0 THEN -i ELSE i

Sgn(i) == IF i < 0 THEN -1 ELSE IF i > 0 THEN 1 ELSE 0

RECURSIVE GCD(_, _)
GCD(a, b) == IF b = 0 THEN a ELSE GCD(b, a % b)

\* the pair n/d brought to the canonical form described above (d >= 0)
Norm(n, d) ==
  IF d = 0 THEN <<Sgn(n), 0>>
  ELSE LET g == GCD(Abs(n), d) IN <<n \div g, d \div g>>

Undefined == <<>>
NaN       == <<0, 0>>
Infinity  == <<1, 0>>
NegInfinity == <<-1, 0>>
Zero      == <<0, 1>>
One       == <<1, 1>>
Hundred   == <<100, 1>>

Int2Num(i) == <<i, 1>>

\* n/d for integer literals n, d with d > 0
Rat(n, d) == Norm(n, d)

IsNaN(x) == x = NaN

IsFinite(x) == x # Undefined /\ x[2] > 0

\* x * y
Mul(x, y) ==
  IF x[2] = 0 \/ y[2] = 0 THEN Norm(x[1] * y[1], 0)
  ELSE LET g1 == GCD(Abs(x[1]), y[2])
           g2 == GCD(Abs(y[1]), x[2])
       IN  Norm((x[1] \div g1) * (y[1] \div g2), (x[2] \div g2) * (y[2] \div g1))

\* 1 / x   (1/0 = Infinity, 1/Infinity = 0, 1/NaN = NaN)
Recip(x) == IF x[1] < 0 THEN <<-x[2], -x[1]>> ELSE <<x[2], x[1]>>

\* x / y
Div(x, y) == Mul(x, Recip(y))

Neg(x) == <<-x[1], x[2]>>

\* x + y   (Infinity + -Infinity = NaN)
Add(x, y) ==
  IF x[2] = 0 /\ y[2] = 0 THEN (IF x = y THEN x ELSE NaN)
  ELSE IF x[2] = 0 THEN x
  ELSE IF y[2] = 0 THEN y
  ELSE LET g == GCD(x[2], y[2])
       IN  Norm(x[1] * (y[2] \div g) + y[1] * (x[2] \div g), (x[2] \div g) * y[2])

Sub(x, y) == Add(x, Neg(y))

\* x > y   (false when either side is NaN)
Gt(x, y) ==
  IF IsNaN(x) \/ IsNaN(y) THEN FALSE
  ELSE IF x[2] = 0 /\ y[2] = 0 THEN x[1] > y[1]
  ELSE IF x[2] = 0 THEN x[1] > 0
  ELSE IF y[2] = 0 THEN y[1] < 0
  ELSE IF y[1] = 0 THEN x[1] > 0
  ELSE Sub(x, y)[1] > 0

Lt(x, y) == Gt(y, x)

\* x <= y   (false when either side is NaN)
Le(x, y) == ~IsNaN(x) /\ ~IsNaN(y) /\ ~Gt(x, y)

\* Math.round on finite values: the nearest integer, halves upwards
Round(x) == IF x[2] = 0 THEN x ELSE <<(2 * x[1] + x[2]) \div (2 * x[2]), 1>>

\* Math.floor
Floor(x) == IF x[2] = 0 THEN x ELSE <<x[1] \div x[2], 1>>

\* Math.ceil
Ceil(x) == Neg(Floor(Neg(x)))

\* JavaScript truthiness of a number or undefined
Truthy(x) == x # Undefined /\ x # NaN /\ x # Zero

\* x || 0
OrZero(x) == IF Truthy(x) THEN x ELSE Zero

---------------------------------------------------------------------------
(* Constants of the program *)

\* CONTAINER_CAPACITIES: '20' -> 28.2, '40' -> 67.2
CONTAINER_CAPACITIES == [c \in {"20", "40"} |-> IF c = "20" THEN Rat(141, 5) ELSE Rat(336, 5)]

\* A product of the catalog.  name, dimensions and description are display
\* text that no computation reads; they are left out.  active is "true",
\* "false" or "undefined" (the field is optional).
Product(id, cbm, upc, price, margin, mix, qty, active) ==
  [id |-> id, masterCartonCBM |-> cbm, unitsPerCarton |-> upc,
   factoryPriceUSD |-> price, profitMargin |-> margin,
   mixPercent |-> mix, quantity |-> qty, active |-> active]

\* getDefaultProducts(): Small, Medium, Large
getDefaultProducts ==
  << Product(1, Rat(59, 1000), Int2Num(4), Rat(448, 100), Int2Num(40), Zero, Undefined, "true"),
     Product(2, Rat(11, 100),  Int2Num(6), Rat(551, 100), Int2Num(40), Zero, Undefined, "true"),
     Product(3, Rat(128, 1000), Int2Num(6), Rat(579, 100), Int2Num(40), Zero, Undefined, "true") >>

\* generateProductId(): an id no product of the catalog carries (the code
\* draws it from the clock and a random number)
generateProductId(products) ==
  CHOOSE i \in 1..(Len(products) + 1) :
    /\ \A k \in 1..Len(products) : products[k].id # i
    /\ \A j \in 1..(i - 1) : \E k \in 1..Len(products) : products[k].id = j

---------------------------------------------------------------------------
(* The results computation (useMemo over inputs) *)

MapSeq(s, F(_)) == [i \in 1..Len(s) |-> F(s[i])]

\* reduce((sum, r) => sum + r, 0) in sequence order
RECURSIVE SumUpTo(_, _)
SumUpTo(s, k) == IF k = 0 THEN Zero ELSE Add(SumUpTo(s, k - 1), s[k])

SumSeq(s) == SumUpTo(s, Len(s))

\* ActiveProducts keeping only the products whose active field is true
ActiveProductsStrict(inp) == SelectSeq(inp.products, LAMBDA p : p.active = "true")

\* inputs.products.filter(p => p.active !== false)
ActiveProducts(inp) == SelectSeq(inp.products, LAMBDA p : p.active # "false")

\* HasQuantity without the `> 0` test
HasQuantityTruthy(product) == Truthy(product.quantity)

\* product.quantity && product.quantity > 0
HasQuantity(product) == Truthy(product.quantity) /\ Gt(product.quantity, Zero)

\* Step 1: one element of preliminaryCalculations
Preliminary(product, totalCBM) ==
  LET masterCBM == product.masterCartonCBM IN
  IF HasQuantity(product)
  THEN LET totalUnits == product.quantity
           cartons    == Ceil(Div(totalUnits, product.unitsPerCarton))
       IN  [product |-> product, allocatedCBM |-> Mul(cartons, masterCBM),
            cartons |-> cartons, totalUnits |-> totalUnits,
            actualCBM |-> Mul(cartons, masterCBM), masterCBM |-> masterCBM]
  ELSE LET mixPercent == OrZero(product.mixPercent)
           requested  == Mul(totalCBM, Div(mixPercent, Hundred))
           cartons    == Floor(Div(requested, masterCBM))
       IN  [product |-> product, allocatedCBM |-> Mul(cartons, masterCBM),
            cartons |-> cartons, totalUnits |-> Mul(cartons, product.unitsPerCarton),
            actualCBM |-> Mul(cartons, masterCBM), masterCBM |-> masterCBM]

PreliminaryCalculations(inp) ==
  MapSeq(ActiveProducts(inp),
         LAMBDA p : Preliminary(p, CONTAINER_CAPACITIES[inp.containerType]))

\* 1 + (inputs.unknownExpensesValue / 100)
SurchargeMultiplier(inp) == Add(One, Div(inp.unknownExpensesValue, Hundred))

\* product.factoryPriceUSD * surchargeMultiplier
FactoryPriceWithSurchargeUSD(product, inp) ==
  Mul(product.factoryPriceUSD, SurchargeMultiplier(inp))

\* 1 - (product.profitMargin / 100)
MarginFactor(product) == Sub(One, Div(product.profitMargin, Hundred))

\* PriceUSD without the `marginFactor > 0` guard
PriceUSDUnguarded(product, inp) ==
  Div(FactoryPriceWithSurchargeUSD(product, inp), MarginFactor(product))

\* marginFactor > 0 ? factoryPriceWithSurchargeUSD / marginFactor : 0
PriceUSD(product, inp) ==
  IF Gt(MarginFactor(product), Zero)
  THEN Div(FactoryPriceWithSurchargeUSD(product, inp), MarginFactor(product))
  ELSE Zero

\* Step 2: one element of resultsWithPrices
WithPrices(pre, inp) ==
  LET product  == pre.product
      fpws     == FactoryPriceWithSurchargeUSD(product, inp)
      priceUSD == PriceUSD(product, inp)
      priceILS == Mul(priceUSD, inp.exchangeRate)
  IN  [product |-> product, allocatedCBM |-> pre.allocatedCBM, cartons |-> pre.cartons,
       totalUnits |-> pre.totalUnits, actualCBM |-> pre.actualCBM, masterCBM |-> pre.masterCBM,
       priceUSD |-> priceUSD, priceILS |-> priceILS,
       landingCostILS |-> Mul(fpws, inp.exchangeRate),
       totalFactoryPriceUSD |-> Mul(fpws, pre.totalUnits),
       customerTotalTransaction |-> Mul(priceILS, pre.totalUnits)]

ResultsWithPrices(inp) ==
  MapSeq(PreliminaryCalculations(inp), LAMBDA pre : WithPrices(pre, inp))

\* resultsWithPrices.reduce((sum, r) => sum + r.customerTotalTransaction, 0)
TotalCustomerTransaction(rwp) ==
  SumSeq(MapSeq(rwp, LAMBDA r : r.customerTotalTransaction))

\* totalUnknownExpensesILS as the results computation derives it
ResultsUnknownExpensesILS(rwp, inp) ==
  IF inp.unknownExpensesType = "percent"
  THEN Mul(TotalCustomerTransaction(rwp), Div(inp.unknownExpensesValue, Hundred))
  ELSE inp.unknownExpensesValue

\* totalUnknownExpensesILS / inputs.exchangeRate
TotalUnknownExpensesUSD(rwp, inp) == Div(ResultsUnknownExpensesILS(rwp, inp), inp.exchangeRate)

\* resultsWithPrices.reduce((sum, r) => sum + r.totalFactoryPriceUSD, 0)
TotalFactoryPriceAll(rwp) == SumSeq(MapSeq(rwp, LAMBDA r : r.totalFactoryPriceUSD))

\* resultsWithPrices.reduce((sum, r) => sum + r.totalUnits, 0)
TotalUnitsAll(rwp) == SumSeq(MapSeq(rwp, LAMBDA r : r.totalUnits))

\* (totalFactoryPriceUSD / totalFactoryPriceAll) * totalUnknownExpensesUSD, or 0
ProportionalUnknownExpensesUSD(totalFactoryPriceUSD, totalFactoryPriceAll, totalUnknownExpensesUSD) ==
  IF Gt(totalFactoryPriceAll, Zero)
  THEN Mul(Div(totalFactoryPriceUSD, totalFactoryPriceAll), totalUnknownExpensesUSD)
  ELSE Zero

\* ShippingPerUnitUSD without the `totalUnitsAll > 0` guard
ShippingPerUnitUSDUnguarded(shippingCostUSD, totalUnitsAll) ==
  Div(shippingCostUSD, totalUnitsAll)

\* inputs.shippingCostUSD / totalUnitsAll, or 0
ShippingPerUnitUSD(shippingCostUSD, totalUnitsAll) ==
  IF Gt(totalUnitsAll, Zero) THEN Div(shippingCostUSD, totalUnitsAll) ELSE Zero

\* preliminaryCalculations.find(p => p.product.id === product.id)?.cartons || 0
FindCartons(pres, id) ==
  IF \E k \in 1..Len(pres) : pres[k].product.id = id
  THEN LET k == CHOOSE k \in 1..Len(pres) :
                  /\ pres[k].product.id = id
                  /\ \A j \in 1..(k - 1) : pres[j].product.id # id
       IN  OrZero(pres[k].cartons)
  ELSE Zero

\* Step 3: the object returned for one element of resultsWithPrices
ResultLine(pre, pres, inp, totalProfitILS, proportionalUSD, shippingPerUnitUSD, shippingPerUnitILS) ==
  [id |-> pre.product.id,
   masterCBM |-> pre.masterCBM,
   unitsPerCarton |-> pre.product.unitsPerCarton,
   factoryPriceUSD |-> pre.product.factoryPriceUSD,
   allocatedCBM |-> pre.actualCBM,
   cartons |-> FindCartons(pres, pre.product.id),
   totalUnits |-> pre.totalUnits,
   totalCBM |-> pre.actualCBM,
   totalFactoryPriceUSD |-> pre.totalFactoryPriceUSD,
   totalExpensesUSD |-> Add(pre.totalFactoryPriceUSD, proportionalUSD),
   priceUSD |-> pre.priceUSD,
   priceILS |-> pre.priceILS,
   landingCostILS |-> pre.landingCostILS,
   totalProfitILS |-> totalProfitILS,
   totalProfitUSD |-> Div(totalProfitILS, inp.exchangeRate),
   shippingPerUnitUSD |-> shippingPerUnitUSD,
   shippingPerUnitILS |-> shippingPerUnitILS,
   priceWithShippingUSD |-> Add(pre.priceUSD, shippingPerUnitUSD),
   priceWithShippingILS |-> Add(pre.priceILS, shippingPerUnitILS),
   productProfitMargin |-> pre.product.profitMargin]

\* FinalLine with the shipping of the units taken out of the profit
FinalLineProfitNetOfShipping(pre, pres, inp, totalUnknownExpensesUSD, totalFactoryPriceAll, shippingPerUnitUSD) ==
  ResultLine(pre, pres, inp,
             Mul(Sub(Sub(pre.priceILS, pre.landingCostILS),
                     Mul(shippingPerUnitUSD, inp.exchangeRate)), pre.totalUnits),
             ProportionalUnknownExpensesUSD(pre.totalFactoryPriceUSD, totalFactoryPriceAll,
                                            totalUnknownExpensesUSD),
             shippingPerUnitUSD,
             Mul(shippingPerUnitUSD, inp.exchangeRate))

\* Step 3: the profit, expense share and shipping of one element, from the
\* aggregates over resultsWithPrices
FinalLine(pre, pres, inp, totalUnknownExpensesUSD, totalFactoryPriceAll, shippingPerUnitUSD) ==
  ResultLine(pre, pres, inp,
             Mul(Sub(pre.priceILS, pre.landingCostILS), pre.totalUnits),
             ProportionalUnknownExpensesUSD(pre.totalFactoryPriceUSD, totalFactoryPriceAll,
                                            totalUnknownExpensesUSD),
             shippingPerUnitUSD,
             Mul(shippingPerUnitUSD, inp.exchangeRate))

\* Step 3: resultsWithPrices.map(...)
FinalResults(pres, rwp, inp) ==
  [i \in 1..Len(rwp) |->
     FinalLine(rwp[i], pres, inp,
               TotalUnknownExpensesUSD(rwp, inp),
               TotalFactoryPriceAll(rwp),
               ShippingPerUnitUSD(inp.shippingCostUSD, TotalUnitsAll(rwp)))]

\* the value of the `results` memo
ComputeResults(inp) ==
  FinalResults(PreliminaryCalculations(inp), ResultsWithPrices(inp), inp)

\* SummaryUnknownExpensesILS taking the percentage of the transaction
\* including shipping
SummaryUnknownExpensesWithShipping(res, inp) ==
  LET totalCustomerTransaction ==
        SumSeq(MapSeq(res, LAMBDA curr : Mul(curr.priceWithShippingILS, curr.totalUnits)))
  IN  IF inp.unknownExpensesType = "percent"
      THEN Mul(totalCustomerTransaction, Div(inp.unknownExpensesValue, Hundred))
      ELSE inp.unknownExpensesValue

\* totalUnknownExpensesILS as the summary computation derives it
SummaryUnknownExpensesILS(res, inp) ==
  LET totalCustomerTransaction ==
        SumSeq(MapSeq(res, LAMBDA curr : Mul(curr.priceILS, curr.totalUnits)))
  IN  IF inp.unknownExpensesType = "percent"
      THEN Mul(totalCustomerTransaction, Div(inp.unknownExpensesValue, Hundred))
      ELSE inp.unknownExpensesValue

\* ComputeSummary with the unknown expenses subtracted from the profit
ComputeSummaryNetProfit(res, inp) ==
  [totalUnits |-> SumSeq(MapSeq(res, LAMBDA curr : curr.totalUnits)),
   totalCBMUtilized |-> SumSeq(MapSeq(res, LAMBDA curr : curr.allocatedCBM)),
   totalCBM |-> SumSeq(MapSeq(res, LAMBDA curr : curr.totalCBM)),
   totalFactoryPriceUSD |-> SumSeq(MapSeq(res, LAMBDA curr : curr.totalFactoryPriceUSD)),
   totalExpensesUSD |-> SumSeq(MapSeq(res, LAMBDA curr : curr.totalExpensesUSD)),
   totalInvestmentUSD |-> SumSeq(MapSeq(res, LAMBDA curr : Mul(curr.totalUnits, curr.factoryPriceUSD))),
   totalProfitILS |-> Sub(SumSeq(MapSeq(res, LAMBDA curr : curr.totalProfitILS)),
                          SummaryUnknownExpensesILS(res, inp)),
   totalUnknownExpensesILS |-> SummaryUnknownExpensesILS(res, inp)]

\* the value of the `summary` memo
ComputeSummary(res, inp) ==
  [totalUnits |-> SumSeq(MapSeq(res, LAMBDA curr : curr.totalUnits)),
   totalCBMUtilized |-> SumSeq(MapSeq(res, LAMBDA curr : curr.allocatedCBM)),
   totalCBM |-> SumSeq(MapSeq(res, LAMBDA curr : curr.totalCBM)),
   totalFactoryPriceUSD |-> SumSeq(MapSeq(res, LAMBDA curr : curr.totalFactoryPriceUSD)),
   totalExpensesUSD |-> SumSeq(MapSeq(res, LAMBDA curr : curr.totalExpensesUSD)),
   totalInvestmentUSD |-> SumSeq(MapSeq(res, LAMBDA curr : Mul(curr.totalUnits, curr.factoryPriceUSD))),
   totalProfitILS |-> SumSeq(MapSeq(res, LAMBDA curr : curr.totalProfitILS)),
   totalUnknownExpensesILS |-> SummaryUnknownExpensesILS(res, inp)]

\* totalPercents: the mix-percent total shown above the product table
totalPercents(inp) == SumSeq(MapSeq(ActiveProducts(inp), LAMBDA p : OrZero(p.mixPercent)))

---------------------------------------------------------------------------
(* Bounds and the values a user types *)

\* edits explored per behaviour
MaxEdits == 2

\* writes to the 'orders' collection explored per behaviour
MaxOrders == 2

\* products the catalog may hold
MaxProducts == 4

\* timestamps the store hands out per behaviour
MaxWrites == 3

\* store calls, other than saveOrder, awaited at a time
MaxCalls == 2

\* parseFloat(e.target.value): the number typed, NaN for an empty field
TypedCBM      == {NaN, Rat(-1, 2)}
TypedUnits    == {NaN, Rat(5, 2)}
TypedPrice    == {NaN, Int2Num(-1)}
TypedMargin   == {NaN, Int2Num(100), Int2Num(120)}
TypedMix      == {NaN, Int2Num(10), Int2Num(-10), Int2Num(120)}
TypedQuantity == {NaN, Int2Num(5), Int2Num(-5)}
TypedRate     == {NaN, Int2Num(4)}
TypedShipping == {NaN, Int2Num(100)}
TypedExpenses == {NaN, Int2Num(10)}

\* parseInt(e.target.value): the typed number cut to its integer part
ParseInt(x) == IF x[2] = 0 THEN NaN ELSE IF x[1] < 0 THEN Neg(Floor(Neg(x))) ELSE Floor(x)

\* x || 1
OrOne(x) == IF Truthy(x) THEN x ELSE One

---------------------------------------------------------------------------
(* State *)

TypeOK ==
  /\ inputs.containerType \in {"20", "40"}
  /\ inputs.unknownExpensesType \in {"percent", "fixed"}
  /\ Len(inputs.products) \in 1..MaxProducts
  /\ Len(results) <= Len(inputs.products)
  /\ edits \in 0..MaxEdits

\* the column configuration of the results table
defaultColumnConfig ==
  [size               |-> [visible |-> TRUE, internal |-> FALSE],
   masterCBM          |-> [visible |-> TRUE, internal |-> FALSE],
   unitsPerCarton     |-> [visible |-> TRUE, internal |-> FALSE],
   totalUnits         |-> [visible |-> TRUE, internal |-> FALSE],
   totalCBM           |-> [visible |-> TRUE, internal |-> FALSE],
   factoryPrice       |-> [visible |-> TRUE, internal |-> TRUE],
   totalExpenses      |-> [visible |-> TRUE, internal |-> TRUE],
   totalFactoryPrice  |-> [visible |-> TRUE, internal |-> TRUE],
   price              |-> [visible |-> TRUE, internal |-> FALSE],
   totalCustomerPrice |-> [visible |-> TRUE, internal |-> FALSE],
   totalProfit        |-> [visible |-> TRUE, internal |-> TRUE],
   marginPercent      |-> [visible |-> TRUE, internal |-> TRUE],
   shippingPerUnit    |-> [visible |-> TRUE, internal |-> FALSE],
   priceWithShipping  |-> [visible |-> TRUE, internal |-> FALSE]]

\* empty 'orders' and 'products' collections; the state of the component
\* once the start-up load of the catalog found nothing saved and kept the
\* default catalog: useState('') for orderName, useState(false) for
\* showSaveDialog, loading and productsChanged, useState([]) for
\* savedOrders, the calculator tab in seller view with every column shown;
\* no call awaited
StoreInit ==
  /\ orders = <<>>
  /\ clock = 0
  /\ orderName = <<>>
  /\ showSaveDialog = FALSE
  /\ loading = FALSE
  /\ pending = <<>>
  /\ outcome = "none"
  /\ productDocs = <<>>
  /\ productsChanged = FALSE
  /\ savedOrders = <<>>
  /\ activeTab = "calculator"
  /\ awaiting = <<>>
  /\ viewMode = "seller"
  /\ columnVisibility = [key \in DOMAIN defaultColumnConfig |-> defaultColumnConfig[key].visible]

\* useState<UserInputs>({...}) and the first render
Init ==
  /\ inputs = [containerType |-> "40",
               products |-> getDefaultProducts,
               exchangeRate |-> Rat(16, 5),
               shippingCostUSD |-> Zero,
               unknownExpensesType |-> "percent",
               unknownExpensesValue |-> Int2Num(5)]
  /\ results = ComputeResults(inputs)
  /\ summary = ComputeSummary(results, inputs)
  /\ edits = 0
  /\ StoreInit

\* setInputs(next) followed by the render that recomputes both memos
SetInputsRender(next) ==
  /\ activeTab = "calculator"
  /\ edits < MaxEdits
  /\ edits' = edits + 1
  /\ inputs' = next
  /\ results' = ComputeResults(next)
  /\ summary' = ComputeSummary(results', next)
  /\ UNCHANGED <<storeVars, appVars, viewVars>>

\* the calculator tab is the one that renders the inputs; setInputs(next)
\* where next keeps the products array of prev: the effect on
\* [inputs.products] does not run
SetInputs(next) ==
  /\ SetInputsRender(next)
  /\ UNCHANGED productsChanged

\* setInputs(next) where next holds a new products array: after the render
\* the effect on [inputs.products] runs setProductsChanged(true)
SetProducts(next) ==
  /\ SetInputsRender(next)
  /\ productsChanged' = TRUE

\* prev.products.map(p => p.id === productId ? F(p) : p)
MapProduct(products, productId, F(_)) ==
  [i \in 1..Len(products) |-> IF products[i].id = productId THEN F(products[i]) ELSE products[i]]

ProductIds == {inputs.products[i].id : i \in 1..Len(inputs.products)}

---------------------------------------------------------------------------
(* Handlers *)

handleAddProduct ==
  /\ Len(inputs.products) < MaxProducts
  /\ SetProducts([inputs EXCEPT !.products =
       Append(@, Product(generateProductId(@), Zero, One, Zero, Int2Num(40), Zero, Undefined, "true"))])

\* the delete button is rendered only while inputs.products.length > 1
handleRemoveProduct ==
  /\ Len(inputs.products) > 1
  /\ \E productId \in ProductIds :
       SetProducts([inputs EXCEPT !.products = SelectSeq(@, LAMBDA p : p.id # productId)])

\* handleProductChange(productId, field, value)
ProductChange(productId, field, value) ==
  SetProducts([inputs EXCEPT !.products =
    MapProduct(@, productId, LAMBDA p : [p EXCEPT ![field] = value])])

\* the `active` checkbox: e.target.checked is the opposite of what is shown
handleProductChangeActive ==
  \E productId \in ProductIds, checked \in BOOLEAN :
    /\ \E i \in 1..Len(inputs.products) :
         /\ inputs.products[i].id = productId
         /\ checked = (inputs.products[i].active = "false")
    /\ ProductChange(productId, "active", IF checked THEN "true" ELSE "false")

handleProductChangeCBM ==
  \E productId \in ProductIds, typed \in TypedCBM :
    ProductChange(productId, "masterCartonCBM", OrZero(typed))

handleProductChangeUnits ==
  \E productId \in ProductIds, typed \in TypedUnits :
    ProductChange(productId, "unitsPerCarton", OrOne(ParseInt(typed)))

handleProductChangePrice ==
  \E productId \in ProductIds, typed \in TypedPrice :
    ProductChange(productId, "factoryPriceUSD", OrZero(typed))

handleProductChangeMargin ==
  \E productId \in ProductIds, typed \in TypedMargin :
    ProductChange(productId, "profitMargin", OrZero(typed))

\* the percent field is disabled while the product has a positive quantity
handleMixPercentChange ==
  \E productId \in ProductIds, typed \in TypedMix :
    /\ \E i \in 1..Len(inputs.products) :
         inputs.products[i].id = productId /\ ~HasQuantity(inputs.products[i])
    /\ LET numValue == OrZero(typed) IN
       SetProducts([inputs EXCEPT !.products =
         MapProduct(@, productId,
           LAMBDA p : [p EXCEPT !.mixPercent = numValue, !.quantity = Undefined])])

\* DerivedMixPercent counting only the full cartons
DerivedMixPercentFloor(product, totalCBM) ==
  LET qty     == OrZero(product.quantity)
      cartons == Floor(Div(qty, product.unitsPerCarton))
      cbmUsed == Mul(cartons, product.masterCartonCBM)
  IN  IF Gt(totalCBM, Zero) THEN Mul(Div(cbmUsed, totalCBM), Hundred) ELSE Zero

\* the percentage handleQuantityChange stores for one product
DerivedMixPercent(product, totalCBM) ==
  LET qty     == OrZero(product.quantity)
      cartons == Ceil(Div(qty, product.unitsPerCarton))
      cbmUsed == Mul(cartons, product.masterCartonCBM)
  IN  IF Gt(totalCBM, Zero) THEN Mul(Div(cbmUsed, totalCBM), Hundred) ELSE Zero

handleQuantityChange ==
  \E productId \in ProductIds, typed \in TypedQuantity :
    LET numValue == OrZero(typed)
        updatedProducts ==
          MapProduct(inputs.products, productId, LAMBDA p : [p EXCEPT !.quantity = numValue])
        totalCBM == CONTAINER_CAPACITIES[inputs.containerType]
        productsWithPercents ==
          MapSeq(updatedProducts,
                 LAMBDA product : [product EXCEPT !.mixPercent = DerivedMixPercent(product, totalCBM)])
    IN  SetProducts([inputs EXCEPT !.products = productsWithPercents])

\* the container <select>: onChange fires for the option that is not selected
setContainerType ==
  \E c \in {"20", "40"} :
    /\ c # inputs.containerType
    /\ SetInputs([inputs EXCEPT !.containerType = c])

setExchangeRate ==
  \E typed \in TypedRate : SetInputs([inputs EXCEPT !.exchangeRate = OrZero(typed)])

setShippingCostUSD ==
  \E typed \in TypedShipping : SetInputs([inputs EXCEPT !.shippingCostUSD = OrZero(typed)])

setUnknownExpensesType ==
  \E t \in {"percent", "fixed"} : SetInputs([inputs EXCEPT !.unknownExpensesType = t])

setUnknownExpensesValue ==
  \E typed \in TypedExpenses : SetInputs([inputs EXCEPT !.unknownExpensesValue = OrZero(typed)])

Next ==
  \/ handleAddProduct
  \/ handleRemoveProduct
  \/ handleProductChangeActive
  \/ handleProductChangeCBM
  \/ handleProductChangeUnits
  \/ handleProductChangePrice
  \/ handleProductChangeMargin
  \/ handleMixPercentChange
  \/ handleQuantityChange
  \/ setContainerType
  \/ setExchangeRate
  \/ setShippingCostUSD
  \/ setUnknownExpensesType
  \/ setUnknownExpensesValue

Spec == Init /\ [][Next]_vars

---------------------------------------------------------------------------
(* Saving an order (src/firestoreService.ts and the save dialog)           *)

\* the order names typed or passed: sequences of characters
Names == {<<>>, <<" ">>, <<"a">>, <<" ", "a", " ">>}

\* String.prototype.trim
RECURSIVE TrimStart(_)
TrimStart(str) == IF str # <<>> /\ Head(str) = " " THEN TrimStart(Tail(str)) ELSE str

RECURSIVE TrimEnd(_)
TrimEnd(str) ==
  IF str # <<>> /\ str[Len(str)] = " " THEN TrimEnd(SubSeq(str, 1, Len(str) - 1)) ELSE str

Trim(str) == TrimEnd(TrimStart(str))

\* whether field f of a product holds undefined
IsAbsent(product, f) ==
  IF f \in {"mixPercent", "quantity"} THEN product[f] = Undefined
  ELSE IF f = "active" THEN product[f] = "undefined"
  ELSE FALSE

\* removeUndefined(inputs): the keys that hold undefined are left out
removeUndefined(inp) ==
  [inp EXCEPT !.products =
     [k \in 1..Len(@) |-> [f \in {g \in DOMAIN @[k] : ~IsAbsent(@[k], g)} |-> @[k][f]]]]

\* saveOrder(name, inputs) with addDoc succeeding: the collection afterwards
SaveOrderDoc(name, inp) ==
  Append(orders, [id |-> clock + 1, name |-> name, inputs |-> removeUndefined(inp),
                  createdAt |-> clock + 1, updatedAt |-> clock + 1])

\* the body of handleSaveOrder up to the awaited saveOrder call
HandleSaveOrder ==
  IF Trim(orderName) = <<>>
  THEN /\ outcome' = "alert: enter a name"
       /\ UNCHANGED <<orders, clock, orderName, showSaveDialog, loading, pending>>
  ELSE /\ Len(orders) + Len(pending) < MaxOrders
       /\ clock + Len(pending) < MaxWrites
       /\ loading' = TRUE
       /\ pending' = Append(pending, [name |-> Trim(orderName), inputs |-> inputs])
       /\ UNCHANGED <<orders, clock, orderName, showSaveDialog, outcome>>

\* the "save order" button of the calculator tab
openSaveDialog ==
  /\ activeTab = "calculator"
  /\ ~showSaveDialog
  /\ showSaveDialog' = TRUE
  /\ UNCHANGED <<inputs, results, summary, edits, orders, clock, orderName, loading, pending, outcome,
               productsChanged, appVars, viewVars>>

\* typing into the name field of the dialog
setOrderName ==
  /\ showSaveDialog
  /\ \E name \in Names : orderName' = name
  /\ UNCHANGED <<inputs, results, summary, edits, orders, clock, showSaveDialog, loading, pending, outcome,
               productsChanged, appVars, viewVars>>

\* the cancel button of the dialog
cancelSaveDialog ==
  /\ showSaveDialog
  /\ showSaveDialog' = FALSE
  /\ orderName' = <<>>
  /\ UNCHANGED <<inputs, results, summary, edits, orders, clock, loading, pending, outcome,
               productsChanged, appVars, viewVars>>

\* the save button of the dialog: disabled={loading || !orderName.trim()}
clickSave ==
  /\ showSaveDialog
  /\ ~loading
  /\ Trim(orderName) # <<>>
  /\ HandleSaveOrder
  /\ UNCHANGED <<inputs, results, summary, edits, productsChanged, appVars, viewVars>>

\* the Enter key in the name field of the dialog
pressEnter ==
  /\ showSaveDialog
  /\ HandleSaveOrder
  /\ UNCHANGED <<inputs, results, summary, edits, productsChanged, appVars, viewVars>>

\* handleSaveOrder after the awaited saveOrder settled: addDoc stored the
\* document, or it failed and saveOrder threw
handleSaveOrderSettled ==
  /\ pending # <<>>
  /\ \E ok \in BOOLEAN :
       IF ok
       THEN /\ orders' = SaveOrderDoc(Head(pending).name, Head(pending).inputs)
            /\ clock' = clock + 1
            /\ showSaveDialog' = FALSE
            /\ orderName' = <<>>
            /\ outcome' = "alert: saved"
       ELSE /\ outcome' = "alert: save failed"
            /\ UNCHANGED <<orders, clock, showSaveDialog, orderName>>
  /\ pending' = Tail(pending)
  /\ loading' = FALSE
  /\ UNCHANGED <<inputs, results, summary, edits, productsChanged, appVars, viewVars>>

\* saveOrder(name, inputs) called directly with the current inputs and a
\* name of `names`: it resolves with the id of the stored document or throws
\* when addDoc fails
SaveOrderCall(names) ==
  /\ Len(orders) + Len(pending) < MaxOrders
  /\ clock < MaxWrites
  /\ \E name \in names, ok \in BOOLEAN :
       IF ok
       THEN /\ orders' = SaveOrderDoc(name, inputs)
            /\ clock' = clock + 1
            /\ outcome' = "resolved"
       ELSE /\ outcome' = "rejected"
            /\ UNCHANGED <<orders, clock>>
  /\ UNCHANGED <<inputs, results, summary, edits, orderName, showSaveDialog, loading, pending,
               productsChanged, appVars, viewVars>>

saveOrder == SaveOrderCall(Names)

NextStore ==
  \/ openSaveDialog
  \/ setOrderName
  \/ cancelSaveDialog
  \/ clickSave
  \/ pressEnter
  \/ handleSaveOrderSettled
  \/ saveOrder
  \/ setContainerType

SpecStore == Init /\ [][NextStore]_vars

---------------------------------------------------------------------------
(* The results computation on hand-sized inputs.  Every scenario below is  *)
(* a value of `inputs` the handlers above produce: handleProductChange     *)
(* stores each typed field, handleQuantityChange stores a quantity and     *)
(* derives the percentage, handleMixPercentChange stores a percentage.     *)

\* a percentage-driven product
CalcProductA ==
  Product(1, Rat(1, 2), Int2Num(4), Int2Num(3), Int2Num(40), Int2Num(10), Undefined, "true")

\* a quantity-driven product; its percentage is the one derived for `containerType`
CalcProductB(containerType) ==
  LET b == Product(2, Rat(2, 5), Int2Num(6), Int2Num(5), Int2Num(50), Zero, Int2Num(5), "true")
  IN  [b EXCEPT !.mixPercent = DerivedMixPercent(b, CONTAINER_CAPACITIES[containerType])]

CalcInputs(containerType, products, shippingCostUSD) ==
  [containerType |-> containerType,
   products |-> products,
   exchangeRate |-> Int2Num(4),
   shippingCostUSD |-> shippingCostUSD,
   unknownExpensesType |-> "percent",
   unknownExpensesValue |-> Int2Num(5)]

CalcScenarios ==
  { CalcInputs("40", <<CalcProductA, CalcProductB("40")>>, Int2Num(100)),
    CalcInputs("20", <<CalcProductA, CalcProductB("20")>>, Zero),
    CalcInputs("40", <<[CalcProductA EXCEPT !.mixPercent = Zero]>>, Int2Num(100)) }

InitCalc ==
  /\ inputs \in CalcScenarios
  /\ results = ComputeResults(inputs)
  /\ summary = ComputeSummary(results, inputs)
  /\ edits = 0
  /\ StoreInit

SpecCalc == InitCalc /\ [][Next]_vars

---------------------------------------------------------------------------
(* Properties of the results computation *)

Lines == 1..Len(results)

\* the product that result line i was computed from
LineProduct(i) == ActiveProducts(inputs)[i]

Capacity == CONTAINER_CAPACITIES[inputs.containerType]

\* the numeric fields of a result line and of the summary
LineFields ==
  {"allocatedCBM", "cartons", "totalUnits", "totalCBM", "totalFactoryPriceUSD",
   "totalExpensesUSD", "priceUSD", "priceILS", "landingCostILS", "totalProfitILS",
   "totalProfitUSD", "shippingPerUnitUSD", "shippingPerUnitILS",
   "priceWithShippingUSD", "priceWithShippingILS"}

SummaryFields ==
  {"totalUnits", "totalCBMUtilized", "totalCBM", "totalFactoryPriceUSD", "totalExpensesUSD",
   "totalInvestmentUSD", "totalProfitILS", "totalUnknownExpensesILS"}

\* quantity is present and > 0
PositiveQuantity(p) == p.quantity # Undefined /\ Gt(p.quantity, Zero)

\* the volume share a product asks for: containerCapacityCBM * mixPercent / 100
RequestedCBM(p) == Div(Mul(Capacity, OrZero(p.mixPercent)), Hundred)

\* C1: every active product with a positive quantity gets
\* cartons = ceil(quantity / unitsPerCarton), totalUnits = quantity and
\* allocatedCBM = cartons * masterCartonCBM, whatever its mixPercent and the
\* capacity; every other active product gets the units of the percentage
\* rule, floor(requestedCBM / masterCartonCBM) * unitsPerCarton.
C1_QuantityDriven ==
  \A i \in Lines :
    LET p == LineProduct(i)
        r == results[i]
    IN  IF PositiveQuantity(p)
        THEN /\ r.totalUnits = p.quantity
             /\ r.cartons = Ceil(Div(p.quantity, p.unitsPerCarton))
             /\ r.allocatedCBM = Mul(Ceil(Div(p.quantity, p.unitsPerCarton)), p.masterCartonCBM)
        ELSE r.totalUnits = Mul(Floor(Div(RequestedCBM(p), p.masterCartonCBM)), p.unitsPerCarton)

\* a quantity that does not fill its last carton, on a product whose stored
\* percentage would allocate something else
C1_Witness ==
  \E i \in Lines :
    LET p == LineProduct(i)
        r == results[i]
    IN  /\ PositiveQuantity(p)
        /\ r.totalUnits = p.quantity
        /\ Gt(Mul(r.cartons, p.unitsPerCarton), p.quantity)
        /\ p.mixPercent # Zero
        /\ Mul(Floor(Div(RequestedCBM(p), p.masterCartonCBM)), p.unitsPerCarton) # p.quantity

\* C2: every active product without a positive quantity gets
\* cartons = floor((capacity * mixPercent / 100) / masterCartonCBM),
\* totalUnits = cartons * unitsPerCarton, allocatedCBM = cartons * masterCartonCBM,
\* and allocatedCBM does not exceed capacity * mixPercent / 100.
C2_PercentageDriven ==
  \A i \in Lines :
    LET p == LineProduct(i)
        r == results[i]
        cartons == Floor(Div(RequestedCBM(p), p.masterCartonCBM))
    IN  ~PositiveQuantity(p) =>
          /\ r.cartons = cartons
          /\ ~IsNaN(r.cartons)
          /\ r.totalUnits = Mul(r.cartons, p.unitsPerCarton)
          /\ r.allocatedCBM = Mul(r.cartons, p.masterCartonCBM)
          /\ Le(r.allocatedCBM, RequestedCBM(p))

\* C3: an active product with masterCartonCBM <= 0 is allocated nothing
\* (cartons, totalUnits and allocatedCBM are 0), and then no field of a
\* result line or of the summary is NaN or infinite.
C3_CannotAllocate ==
  (\E i \in Lines : Le(LineProduct(i).masterCartonCBM, Zero)) =>
    /\ \A i \in Lines :
         Le(LineProduct(i).masterCartonCBM, Zero) =>
           /\ results[i].cartons = Zero
           /\ results[i].totalUnits = Zero
           /\ results[i].allocatedCBM = Zero
    /\ \A i \in Lines : \A f \in LineFields : IsFinite(results[i][f])
    /\ \A f \in SummaryFields : IsFinite(summary[f])

\* C4: an active product without a positive quantity whose mixPercent is
\* zero, negative or absent is allocated nothing: cartons, totalUnits and
\* allocatedCBM are 0 (stated for products with a positive carton volume).
C4_ZeroAllocation ==
  \A i \in Lines :
    LET p == LineProduct(i)
        r == results[i]
    IN  (/\ ~PositiveQuantity(p)
         /\ Le(OrZero(p.mixPercent), Zero)
         /\ Gt(p.masterCartonCBM, Zero)) =>
          /\ r.cartons = Zero
          /\ r.totalUnits = Zero
          /\ r.allocatedCBM = Zero

\* the per-unit factory price the pricing step uses for a product
UnitFactoryPriceUSD(p) ==
  Mul(p.factoryPriceUSD, Add(One, Div(inputs.unknownExpensesValue, Hundred)))

\* C5: on every line, unitPriceUSD * (100 - profitMargin) = 100 * unitFactoryPriceUSD
\* when profitMargin < 100, unitPriceUSD = 0 when profitMargin >= 100, and
\* unitPriceLocal = unitPriceUSD * exchangeRate; the price is never the
\* result of a division by zero or by a negative factor.
C5_UnitPrice ==
  \A i \in Lines :
    LET p == LineProduct(i)
        r == results[i]
    IN  /\ Lt(p.profitMargin, Hundred) =>
             Mul(r.priceUSD, Sub(Hundred, p.profitMargin)) = Mul(Hundred, UnitFactoryPriceUSD(p))
        /\ ~Lt(p.profitMargin, Hundred) => r.priceUSD = Zero
        /\ r.priceILS = Mul(r.priceUSD, inputs.exchangeRate)
        /\ IsFinite(r.priceUSD)

\* one line priced by the division and one with the degenerate margin
C5_Witness ==
  /\ \E i \in Lines :
       /\ Lt(LineProduct(i).profitMargin, Hundred)
       /\ Gt(results[i].priceUSD, LineProduct(i).factoryPriceUSD)
       /\ Gt(results[i].priceILS, results[i].priceUSD)
  /\ \E i \in Lines :
       /\ ~Lt(LineProduct(i).profitMargin, Hundred)
       /\ Gt(LineProduct(i).factoryPriceUSD, Zero)
       /\ results[i].priceUSD = Zero

\* C6: under the 'fixed' policy the per-unit factory price behind the landed
\* cost, totalFactoryPriceUSD and the customer price is the product's
\* factoryPriceUSD, without a surcharge.
C6_NoSurchargeWhenFixed ==
  inputs.unknownExpensesType = "fixed" =>
    \A i \in Lines :
      LET p == LineProduct(i)
          r == results[i]
      IN  /\ r.landingCostILS = Mul(p.factoryPriceUSD, inputs.exchangeRate)
          /\ r.totalFactoryPriceUSD = Mul(p.factoryPriceUSD, r.totalUnits)
          /\ Lt(p.profitMargin, Hundred) =>
               Mul(r.priceUSD, Sub(Hundred, p.profitMargin)) = Mul(Hundred, p.factoryPriceUSD)

\* the sum over the result lines of unitPriceLocal * totalUnits
TotalCustomerTransactionLocal ==
  SumSeq([i \in Lines |-> Mul(results[i].priceILS, results[i].totalUnits)])

\* C7: the summary's totalUnknownExpensesILS is
\* totalCustomerTransactionLocal * value / 100 under 'percent' and value under
\* 'fixed', and it is the amount the per-line distribution in results used.
C7_UnknownExpenses ==
  /\ inputs.unknownExpensesType = "percent" =>
       summary.totalUnknownExpensesILS =
         Div(Mul(TotalCustomerTransactionLocal, inputs.unknownExpensesValue), Hundred)
  /\ inputs.unknownExpensesType = "fixed" =>
       summary.totalUnknownExpensesILS = inputs.unknownExpensesValue
  /\ summary.totalUnknownExpensesILS =
       ResultsUnknownExpensesILS(ResultsWithPrices(inputs), inputs)

\* the 'fixed' policy with units sold and an amount that differs from the
\* percentage of the transaction
C7_Witness ==
  /\ inputs.unknownExpensesType = "fixed"
  /\ inputs.unknownExpensesValue # Zero
  /\ Gt(TotalCustomerTransactionLocal, Zero)
  /\ summary.totalUnknownExpensesILS #
       Div(Mul(TotalCustomerTransactionLocal, inputs.unknownExpensesValue), Hundred)

\* the aggregates as the result lines and the summary show them
LinesFactoryPriceAll == SumSeq([i \in Lines |-> results[i].totalFactoryPriceUSD])

LinesUnitsAll == SumSeq([i \in Lines |-> results[i].totalUnits])

SummaryUnknownExpensesUSD == Div(summary.totalUnknownExpensesILS, inputs.exchangeRate)

\* totalExpensesUSD - totalFactoryPriceUSD of line i
LineProportionalExpenseUSD(i) ==
  Sub(results[i].totalExpensesUSD, results[i].totalFactoryPriceUSD)

\* C8: whenever totalFactoryPriceAll is nonzero, each line's
\* proportionalExpenseUSD is its share totalFactoryPriceUSD / totalFactoryPriceAll
\* of totalUndocumentedExpenseUSD, the shares add up to
\* totalUndocumentedExpenseUSD, and summary.totalExpensesUSD =
\* summary.totalFactoryPriceUSD + totalUndocumentedExpenseUSD.
C8_ExpenseConservation ==
  (IsFinite(LinesFactoryPriceAll) /\ LinesFactoryPriceAll # Zero) =>
    /\ \A i \in Lines :
         LineProportionalExpenseUSD(i) =
           Mul(Div(results[i].totalFactoryPriceUSD, LinesFactoryPriceAll), SummaryUnknownExpensesUSD)
    /\ SumSeq([i \in Lines |-> LineProportionalExpenseUSD(i)]) = SummaryUnknownExpensesUSD
    /\ summary.totalExpensesUSD = Add(summary.totalFactoryPriceUSD, SummaryUnknownExpensesUSD)

\* C9: whenever totalUnitsAll > 0, every line has
\* shippingPerUnitUSD = shippingCostUSD / totalUnitsAll and
\* priceWithShippingUSD = unitPriceUSD + shippingPerUnitUSD, and the sum over
\* the lines of shippingPerUnitUSD * totalUnits is shippingCostUSD.
C9_ShippingConservation ==
  Gt(LinesUnitsAll, Zero) =>
    /\ \A i \in Lines :
         /\ results[i].shippingPerUnitUSD = Div(inputs.shippingCostUSD, LinesUnitsAll)
         /\ results[i].priceWithShippingUSD = Add(results[i].priceUSD, results[i].shippingPerUnitUSD)
    /\ SumSeq([i \in Lines |-> Mul(results[i].shippingPerUnitUSD, results[i].totalUnits)])
         = inputs.shippingCostUSD

C11_LineProfit ==
  /\ \A i \in Lines :
       LET p == LineProduct(i)
           r == results[i]
       IN  /\ r.totalProfitILS =
                Mul(Sub(r.priceILS, Mul(UnitFactoryPriceUSD(p), inputs.exchangeRate)), r.totalUnits)
           /\ r.totalProfitUSD = Div(r.totalProfitILS, inputs.exchangeRate)
  /\ summary.totalProfitILS = SumSeq([i \in Lines |-> results[i].totalProfitILS])

\* two lines that sell units at a profit while there are unknown expenses
\* that could have been subtracted
C11_Witness ==
  /\ Len(results) >= 2
  /\ \A i \in Lines : Gt(results[i].totalUnits, Zero) /\ Gt(results[i].totalProfitILS, Zero)
  /\ Gt(summary.totalUnknownExpensesILS, Zero)
  /\ Gt(summary.totalProfitILS, results[1].totalProfitILS)

\* C12: a line whose product has profitMargin >= 100 has priceUSD = 0 and
\* totalProfitUSD = -totalFactoryPriceUSD, and its totalProfitUSD is not NaN
\* (stated for products with a positive carton volume).
C12_MarginDegenerate ==
  \A i \in Lines :
    (~Lt(LineProduct(i).profitMargin, Hundred) /\ Gt(LineProduct(i).masterCartonCBM, Zero)) =>
      /\ results[i].priceUSD = Zero
      /\ results[i].totalProfitUSD = Neg(results[i].totalFactoryPriceUSD)
      /\ ~IsNaN(results[i].totalProfitUSD)

\* C13: the summary's totalUnits, totalCBMUtilized, totalFactoryPriceUSD,
\* totalExpensesUSD and totalProfitILS are the sums of the lines' fields, and
\* summary.totalInvestmentUSD is the sum of the lines' totalFactoryPriceUSD.
C13_SummarySums ==
  /\ summary.totalUnits = SumSeq([i \in Lines |-> results[i].totalUnits])
  /\ summary.totalCBMUtilized = SumSeq([i \in Lines |-> results[i].allocatedCBM])
  /\ summary.totalFactoryPriceUSD = SumSeq([i \in Lines |-> results[i].totalFactoryPriceUSD])
  /\ summary.totalExpensesUSD = SumSeq([i \in Lines |-> results[i].totalExpensesUSD])
  /\ summary.totalProfitILS = SumSeq([i \in Lines |-> results[i].totalProfitILS])
  /\ summary.totalInvestmentUSD = SumSeq([i \in Lines |-> results[i].totalFactoryPriceUSD])


\* C14: when no product is active, every field of the summary is 0, under
\* the 'percent' and under the 'fixed' expense policy.
C14_ZeroCatalog ==
  (\A k \in 1..Len(inputs.products) : inputs.products[k].active = "false") =>
    \A f \in SummaryFields : summary[f] = Zero

\* inputs with the active field of one product replaced, as
\* handleProductChange(productId, 'active', ..) does
WithActive(inp, productId, active) ==
  [inp EXCEPT !.products = MapProduct(@, productId, LAMBDA p : [p EXCEPT !.active = active])]

\* inputs with the active field of every product that has it true left out
ActiveAbsent(inp) ==
  [inp EXCEPT !.products =
     [k \in 1..Len(@) |-> IF @[k].active = "true" THEN [@[k] EXCEPT !.active = "undefined"] ELSE @[k]]]

\* the products that have a line in res
LineIds(res) == {res[i].id : i \in 1..Len(res)}

\* C15: the result lines are the products whose active is not false, in
\* catalog order; results, summary and the mix-percent total are what they
\* would be with the inactive products taken out of the catalog; leaving the
\* active field out is the same as active = true; deactivating a product
\* keeps it in inputs.products and reactivating it restores the results.
C15_InactiveExcluded ==
  LET kept == SelectSeq(inputs.products, LAMBDA p : p.active # "false")
      without == [inputs EXCEPT !.products = kept]
  IN  /\ Len(results) = Len(kept)
      /\ \A i \in Lines : results[i].id = kept[i].id
      /\ results = ComputeResults(without)
      /\ summary = ComputeSummary(results, without)
      /\ totalPercents(inputs) = totalPercents(without)
      /\ ComputeResults(ActiveAbsent(inputs)) = results
      /\ \A k \in 1..Len(inputs.products) :
           LET id  == inputs.products[k].id
               off == WithActive(inputs, id, "false")
           IN  inputs.products[k].active # "false" =>
                 /\ Len(off.products) = Len(inputs.products)
                 /\ off.products[k].id = id
                 /\ id \notin LineIds(ComputeResults(off))
                 /\ ComputeResults(WithActive(off, id, "true")) = results

\* a deactivated product that asks for a share of the container, next to a
\* product that is still active
C15_Witness ==
  /\ \E k \in 1..Len(inputs.products) :
       /\ inputs.products[k].active = "false"
       /\ Gt(OrZero(inputs.products[k].mixPercent), Zero)
       /\ \A i \in Lines : results[i].id # inputs.products[k].id
  /\ Len(results) >= 1
  /\ Len(results) < Len(inputs.products)


\* the percentages compared by the monotonicity property
MixSamples == {Zero, Int2Num(10), Int2Num(50), Hundred}

\* the allocation of product p in percentage mode with mixPercent m
AllocateByPercent(p, m) ==
  Preliminary([p EXCEPT !.mixPercent = m, !.quantity = Undefined], Capacity)

\* C16: for the selected container and every product of the catalog taken in
\* percentage mode, mixPercent a <= mixPercent b gives totalUnits and cartons
\* for a that are <= those for b.
C16_CartonMonotone ==
  \A k \in 1..Len(inputs.products) : \A a, b \in MixSamples :
    Le(a, b) =>
      /\ Le(AllocateByPercent(inputs.products[k], a).totalUnits,
            AllocateByPercent(inputs.products[k], b).totalUnits)
      /\ Le(AllocateByPercent(inputs.products[k], a).cartons,
            AllocateByPercent(inputs.products[k], b).cartons)


\* 100 * (ceil(q / unitsPerCarton) * masterCartonCBM) / capacity, 0 when the
\* capacity is not > 0
QuantityShare(p, capacity) ==
  IF Gt(capacity, Zero)
  THEN Div(Mul(Hundred, Mul(Ceil(Div(p.quantity, p.unitsPerCarton)), p.masterCartonCBM)), capacity)
  ELSE Zero

\* C17: a step that gives a product a new positive quantity (a step of
\* handleQuantityChange) leaves that product with mixPercent =
\* 100 * (ceil(q / unitsPerCarton) * masterCartonCBM) / capacity of the
\* selected container.
C17_DerivedMixPercent ==
  [][\A k \in 1..Len(inputs'.products) :
       (/\ PositiveQuantity(inputs'.products[k])
        /\ \E j \in 1..Len(inputs.products) :
             /\ inputs.products[j].id = inputs'.products[k].id
             /\ inputs.products[j].quantity # inputs'.products[k].quantity)
       => inputs'.products[k].mixPercent =
            QuantityShare(inputs'.products[k], CONTAINER_CAPACITIES[inputs'.containerType])]_vars

\* the percentage-driven product of the catalog after it was given a
\* quantity that does not fill its last carton
C17_Witness ==
  \E k \in 1..Len(inputs.products) :
    LET p == inputs.products[k]
    IN  /\ p.id = 1
        /\ PositiveQuantity(p)
        /\ Gt(Mul(Ceil(Div(p.quantity, p.unitsPerCarton)), p.unitsPerCarton), p.quantity)
        /\ p.mixPercent = QuantityShare(p, Capacity)
        /\ Gt(p.mixPercent, Zero)


\* C18: in every state summary.totalCBMUtilized, the sum of allocatedCBM over
\* the active products, does not exceed the capacity of the selected
\* container (stated for catalogs whose active products have a positive
\* carton volume).
C18_WithinCapacity ==
  (\A i \in Lines : Gt(LineProduct(i).masterCartonCBM, Zero)) =>
    Le(summary.totalCBMUtilized, Capacity)


---------------------------------------------------------------------------
(* The results computation on the catalog's Medium product filling the     *)
(* 40' container alone                                                     *)

\* 40' container, Medium alone at 100 percent, exchange rate 3.2, no
\* shipping cost, expense value 0
ConcreteInputs ==
  [containerType |-> "40",
   products |-> <<[getDefaultProducts[2] EXCEPT !.mixPercent = Hundred]>>,
   exchangeRate |-> Rat(16, 5),
   shippingCostUSD |-> Zero,
   unknownExpensesType |-> "percent",
   unknownExpensesValue |-> Zero]

InitConcrete ==
  /\ inputs = ConcreteInputs
  /\ results = ComputeResults(inputs)
  /\ summary = ComputeSummary(results, inputs)
  /\ edits = 0
  /\ StoreInit

SpecConcrete == InitConcrete /\ [][Next]_vars

\* |x - c| <= tol
Near(x, c, tol) == Le(Sub(x, c), tol) /\ Le(Sub(c, x), tol)

\* half a unit of the fourth and of the second decimal
HalfUnit4 == Rat(5, 100000)

HalfUnit2 == Rat(5, 1000)

\* cartons, units and unit prices of the scenario
ConcreteAllocationAndPrices ==
  /\ Len(results) = 1
  /\ results[1].cartons = Int2Num(610)
  /\ results[1].totalUnits = Int2Num(3660)
  /\ results[1].priceUSD = Div(Rat(551, 100), Rat(6, 10))
  /\ Near(results[1].priceUSD, Rat(91833, 10000), HalfUnit4)
  /\ Near(results[1].priceILS, Rat(293867, 10000), HalfUnit4)

\* C19 as stated: in the scenario cartons = 610, totalUnits = 3660,
\* priceUSD = 5.51/0.6 (about 9.1833), priceILS about 29.3867 and
\* totalProfitUSD about 13440.66.
C19_ConcreteAsStated ==
  inputs = ConcreteInputs =>
    /\ ConcreteAllocationAndPrices
    /\ Near(results[1].totalProfitUSD, Rat(1344066, 100), HalfUnit2)

\* C19: in the scenario cartons = 610, totalUnits = 3660, priceUSD =
\* 5.51/0.6 (about 9.1833), priceILS about 29.3867 and totalProfitUSD =
\* (5.51/0.6 - 5.51) * 3660 = 13444.40.
C19_ConcreteScenario ==
  inputs = ConcreteInputs =>
    /\ ConcreteAllocationAndPrices
    /\ results[1].totalProfitUSD = Rat(134444, 10)
    /\ results[1].totalProfitUSD =
         Mul(Sub(Div(Rat(551, 100), Rat(6, 10)), Rat(551, 100)), Int2Num(3660))

\* the scenario with its results computed
C19_Witness ==
  /\ inputs = ConcreteInputs
  /\ Len(results) = 1
  /\ results[1].cartons = Int2Num(610)
  /\ Gt(results[1].totalProfitUSD, Int2Num(13444))


\* C20: no order with an empty or blank name is ever in the store, whether
\* the save was requested through handleSaveOrder or by calling saveOrder.
C20_NoBlankOrderStored ==
  \A k \in 1..Len(orders) : Trim(orders[k].name) # <<>>



---------------------------------------------------------------------------
(* The view mode and the column switches of the results table              *)

ColumnKeys == DOMAIN defaultColumnConfig

\* the useMemo on [columnVisibility]: columnVisibility[key] ?? visible
columnConfig ==
  [key \in ColumnKeys |->
     [visible |-> columnVisibility[key], internal |-> defaultColumnConfig[key].internal]]

\* isColumnVisible without the customer branch
isColumnVisibleSeller(key) == columnVisibility[key]

isColumnVisible(key) ==
  IF viewMode = "customer"
  THEN ~columnConfig[key].internal /\ columnVisibility[key]
  ELSE columnVisibility[key]

\* the two view-mode buttons
setViewMode ==
  /\ \E mode \in {"seller", "customer"} : viewMode' = mode
  /\ UNCHANGED <<inputs, results, summary, edits, storeVars, productsChanged, appVars, columnVisibility>>

\* the checkbox in the header of a column: the header cell is rendered only
\* while isColumnVisible(key), and e.target.checked is the opposite of what
\* the checkbox shows
toggleColumn ==
  /\ \E key \in ColumnKeys :
       /\ isColumnVisible(key)
       /\ columnVisibility' = [columnVisibility EXCEPT ![key] = ~columnVisibility[key]]
  /\ UNCHANGED <<inputs, results, summary, edits, storeVars, productsChanged, appVars, viewMode>>

\* a button of the hidden columns panel: one per column whose switch is off
showHiddenColumn ==
  /\ \E key \in ColumnKeys :
       /\ ~columnConfig[key].visible
       /\ columnVisibility' = [columnVisibility EXCEPT ![key] = TRUE]
  /\ UNCHANGED <<inputs, results, summary, edits, storeVars, productsChanged, appVars, viewMode>>

NextView ==
  \/ setViewMode
  \/ toggleColumn
  \/ showHiddenColumn

SpecView == Init /\ [][NextView]_vars

\* the columns the property names
InternalColumns ==
  {"factoryPrice", "totalExpenses", "totalFactoryPrice", "totalProfit", "marginPercent"}

\* C27: the columns marked internal are factoryPrice, totalExpenses,
\* totalFactoryPrice, totalProfit and marginPercent, and while viewMode is
\* 'customer' isColumnVisible is false for each of them, whatever view-mode
\* switches, column toggles and 'show hidden column' clicks came before.
C27_CustomerRedaction ==
  /\ {key \in ColumnKeys : defaultColumnConfig[key].internal} = InternalColumns
  /\ viewMode = "customer" => \A key \in InternalColumns : ~isColumnVisible(key)

\* customer view in which the switch of one internal column was turned off
\* and the switch of another is on, while a customer column is shown
C27_Witness ==
  /\ viewMode = "customer"
  /\ columnVisibility["factoryPrice"]
  /\ ~columnVisibility["totalProfit"]
  /\ ~columnVisibility["totalUnits"]
  /\ isColumnVisible("price")


---------------------------------------------------------------------------
(* Shipping and the other figures                                          *)

\* the fields of a result line that carry shipping
ShippingFields ==
  {"shippingPerUnitUSD", "shippingPerUnitILS", "priceWithShippingUSD", "priceWithShippingILS"}

\* C25: a step that changes shippingCostUSD and nothing else of the inputs
\* leaves every field of every result line other than shippingPerUnitUSD/ILS
\* and priceWithShippingUSD/ILS (so cartons, totalUnits, the unit prices,
\* totalFactoryPriceUSD, totalExpensesUSD and the profits) and every field of
\* the summary as it was.
C25_ShippingIndependence ==
  [][(/\ inputs'.shippingCostUSD # inputs.shippingCostUSD
      /\ inputs' = [inputs EXCEPT !.shippingCostUSD = inputs'.shippingCostUSD])
     => /\ Len(results') = Len(results)
        /\ \A i \in 1..Len(results) : \A f \in DOMAIN results[i] \ ShippingFields :
             results'[i][f] = results[i][f]
        /\ summary' = summary]_vars

\* the second scenario after a shipping cost of 100 was entered: the
\* shipping figures are positive while the lines carry units and profit
C25_Witness ==
  /\ inputs = CalcInputs("20", <<CalcProductA, CalcProductB("20")>>, Int2Num(100))
  /\ edits = 1
  /\ \A i \in Lines :
       /\ Gt(results[i].totalUnits, Zero)
       /\ Gt(results[i].shippingPerUnitUSD, Zero)
       /\ Gt(results[i].priceWithShippingILS, results[i].priceILS)
       /\ Gt(results[i].totalProfitUSD, Zero)


---------------------------------------------------------------------------
(* The stored percentage of a quantity-driven product                      *)

\* C26: in every reachable state each product with quantity > 0 has
\* mixPercent = 100 * ceil(quantity / unitsPerCarton) * masterCartonCBM /
\* capacity of the currently selected container.
C26_DerivedPercentConsistent ==
  \A k \in 1..Len(inputs.products) :
    PositiveQuantity(inputs.products[k]) =>
      inputs.products[k].mixPercent = QuantityShare(inputs.products[k], Capacity)


---------------------------------------------------------------------------
(* What handleQuantityChange writes                                        *)

\* the fields of a product that handleQuantityChange does not write
KeptFields == {"id", "masterCartonCBM", "unitsPerCarton", "factoryPriceUSD", "profitMargin", "active"}

\* C30: a step that stores a quantity in one product (a step of
\* handleQuantityChange) leaves every product with quantity > 0 with its
\* derived percentage and every other product with mixPercent = 0; it keeps
\* the quantity and every other field of the other products, and
\* containerType, exchangeRate, shippingCostUSD and the expense policy.
C30_QuantityChangeFrame ==
  [][\A j \in 1..Len(inputs.products) :
       (/\ Len(inputs'.products) = Len(inputs.products)
        /\ inputs'.products[j].id = inputs.products[j].id
        /\ inputs'.products[j].quantity # inputs.products[j].quantity
        /\ inputs'.products[j].quantity # Undefined)
       => /\ \A k \in 1..Len(inputs'.products) :
               /\ inputs'.products[k].mixPercent =
                    IF PositiveQuantity(inputs'.products[k])
                    THEN QuantityShare(inputs'.products[k], CONTAINER_CAPACITIES[inputs'.containerType])
                    ELSE Zero
               /\ \A f \in KeptFields : inputs'.products[k][f] = inputs.products[k][f]
               /\ k # j => inputs'.products[k].quantity = inputs.products[k].quantity
          /\ inputs'.containerType = inputs.containerType
          /\ inputs'.exchangeRate = inputs.exchangeRate
          /\ inputs'.shippingCostUSD = inputs.shippingCostUSD
          /\ inputs'.unknownExpensesType = inputs.unknownExpensesType
          /\ inputs'.unknownExpensesValue = inputs.unknownExpensesValue]_vars


---------------------------------------------------------------------------
(* The store service (src/firestoreService.ts) called by any client        *)
(*                                                                         *)
(* Timestamp.now() is modelled by a clock that every write advances, so    *)
(* no two documents carry the same updatedAt.                              *)

ProductFields ==
  {"id", "masterCartonCBM", "unitsPerCarton", "factoryPriceUSD", "profitMargin",
   "mixPercent", "quantity", "active"}

\* obj[f] as JavaScript reads it: undefined when the stored object has no key f
ReadField(obj, f) ==
  IF f \in DOMAIN obj THEN obj[f] ELSE IF f = "active" THEN "undefined" ELSE Undefined

\* a stored product as the client sees it
ReadProduct(stored) == [f \in ProductFields |-> ReadField(stored, f)]

\* the product returned as it was stored
WithActiveAsStored(product) == product

\* { ...product, active: product.active !== undefined ? product.active : true }
WithActiveDefault(product) ==
  [product EXCEPT !.active = IF product.active # "undefined" THEN product.active ELSE "true"]

\* the position in docs of the i-th document of orderBy('updatedAt', 'desc')
DescIndex(docs, i) ==
  CHOOSE k \in 1..Len(docs) :
    Cardinality({j \in 1..Len(docs) : docs[j].updatedAt > docs[k].updatedAt}) = i - 1

\* the position in docs of the i-th document by ascending updatedAt
AscIndex(docs, i) ==
  CHOOSE k \in 1..Len(docs) :
    Cardinality({j \in 1..Len(docs) : docs[j].updatedAt < docs[k].updatedAt}) = i - 1

\* getAllOrders listing the least recently updated order first
getAllOrdersAscending(docs) == [i \in 1..Len(docs) |-> docs[AscIndex(docs, i)]]

\* getAllOrders(): { id: doc.id, ...doc.data() } for the documents of the
\* query, in its order
getAllOrders(docs) == [i \in 1..Len(docs) |-> docs[DescIndex(docs, i)]]

\* getSavedProducts reading the oldest document
getSavedProductsOldest(docs) ==
  IF docs = <<>> THEN <<>>
  ELSE MapSeq(docs[AscIndex(docs, 1)].products, LAMBDA p : WithActiveDefault(ReadProduct(p)))

\* getSavedProducts(): [] for an empty collection, else the products of
\* querySnapshot.docs[0] with the active default
getSavedProducts(docs) ==
  IF docs = <<>> THEN <<>>
  ELSE MapSeq(docs[DescIndex(docs, 1)].products, LAMBDA p : WithActiveDefault(ReadProduct(p)))

\* the loadProducts effect: setInputs only when savedProducts.length > 0
LoadedCatalog(prev, savedProducts) ==
  IF Len(savedProducts) > 0 THEN savedProducts ELSE prev

\* saveProducts(products) with addDoc succeeding: the collection afterwards
SaveProductsDoc(products) ==
  Append(productDocs, [products |-> removeUndefined([products |-> products]).products,
                       updatedAt |-> clock + 1])

\* updateOrder that merges the new inputs into the stored ones
UpdateOrderDocMerge(d, name, inp) ==
  LET old == d.inputs.products
      new == removeUndefined(inp).products
      n   == IF Len(old) > Len(new) THEN Len(old) ELSE Len(new)
  IN  [d EXCEPT !.name = name,
                !.inputs = [removeUndefined(inp) EXCEPT !.products =
                   [k \in 1..n |->
                      IF k > Len(new) THEN old[k]
                      ELSE IF k > Len(old) THEN new[k]
                      ELSE [f \in DOMAIN old[k] \cup DOMAIN new[k] |->
                              IF f \in DOMAIN new[k] THEN new[k][f] ELSE old[k][f]]]],
                !.updatedAt = clock + 1]

\* updateDoc(orderRef, { name, inputs, updatedAt }): the three fields are
\* replaced, every other field of the document stays
UpdateOrderDoc(d, name, inp) ==
  [d EXCEPT !.name = name, !.inputs = removeUndefined(inp), !.updatedAt = clock + 1]

\* the ids of the stored orders, and 0 for an id no document carries
OrderIds(docs) == {docs[k].id : k \in 1..Len(docs)}

\* the names passed to updateOrder
UpdateNames == {<<"a">>, <<"b">>}

\* saveOrder(name, inputs) called with the name the updates can change
saveOrderNamed == SaveOrderCall({<<"a">>})

\* updateOrder(orderId, name, inputs) called with the current inputs:
\* updateDoc fails for an id that has no document
updateOrder ==
  /\ clock < MaxWrites
  /\ \E orderId \in OrderIds(orders) \cup {0}, name \in UpdateNames, ok \in BOOLEAN :
       IF ok /\ orderId \in OrderIds(orders)
       THEN /\ orders' = [k \in 1..Len(orders) |->
                            IF orders[k].id = orderId
                            THEN UpdateOrderDoc(orders[k], name, inputs) ELSE orders[k]]
            /\ clock' = clock + 1
            /\ outcome' = "resolved"
       ELSE /\ outcome' = "rejected"
            /\ UNCHANGED <<orders, clock>>
  /\ UNCHANGED <<inputs, results, summary, edits, orderName, showSaveDialog, loading, pending,
                 productsChanged, appVars, viewVars>>

\* deleteOrder(orderId): deleteDoc resolves whether or not the document exists
deleteOrder ==
  /\ clock < MaxWrites
  /\ \E orderId \in OrderIds(orders) \cup {0}, ok \in BOOLEAN :
       IF ok
       THEN /\ orders' = SelectSeq(orders, LAMBDA d : d.id # orderId)
            /\ outcome' = "resolved"
       ELSE /\ outcome' = "rejected"
            /\ UNCHANGED orders
  /\ UNCHANGED <<inputs, results, summary, edits, clock, orderName, showSaveDialog, loading,
                 pending, productsChanged, appVars, viewVars>>

\* saveProducts(products) called with the current catalog
saveProducts ==
  /\ clock < MaxWrites
  /\ \E ok \in BOOLEAN :
       IF ok
       THEN /\ productDocs' = SaveProductsDoc(inputs.products)
            /\ clock' = clock + 1
            /\ outcome' = "resolved"
       ELSE /\ outcome' = "rejected"
            /\ UNCHANGED <<productDocs, clock>>
  /\ UNCHANGED <<inputs, results, summary, edits, orders, orderName, showSaveDialog, loading,
                 pending, productsChanged, savedOrders, activeTab, awaiting, viewVars>>

\* the first scenario of the results computation: one product without a
\* quantity and one with, and both collections empty
InitService ==
  /\ inputs = CalcInputs("40", <<CalcProductA, CalcProductB("40")>>, Int2Num(100))
  /\ results = ComputeResults(inputs)
  /\ summary = ComputeSummary(results, inputs)
  /\ edits = 0
  /\ StoreInit

NextService ==
  \/ saveOrderNamed
  \/ updateOrder
  \/ deleteOrder
  \/ saveProducts
  \/ handleRemoveProduct
  \/ handleProductChangeActive
  \/ setContainerType

SpecService == InitService /\ [][NextService]_vars


ListedNewestFirst(list, docs) ==
  /\ Len(list) = Len(docs)
  /\ {list[i] : i \in 1..Len(list)} = {docs[k] : k \in 1..Len(docs)}
  /\ \A i, j \in 1..Len(list) : i < j => list[i].updatedAt > list[j].updatedAt

\* the order with this id was stored or rewritten by the step
WrittenByStep(id) ==
  /\ id \in OrderIds(orders')
  /\ \A k \in 1..Len(orders) : orders[k].id = id => orders[k] \notin {orders'[j] : j \in 1..Len(orders')}

C24_SavedOrderImmutable ==
  [][/\ (inputs' # inputs \/ productDocs' # productDocs \/ Len(orders') > Len(orders))
          => \A k \in 1..Len(orders) : orders'[k] = orders[k]
     /\ Len(orders') = Len(orders) =>
          \A k \in 1..Len(orders) :
            \/ orders'[k] = orders[k]
            \/ /\ \E name \in UpdateNames :
                    orders'[k] = [id |-> orders[k].id,
                                  name |-> name,
                                  inputs |-> removeUndefined(inputs),
                                  createdAt |-> orders[k].createdAt,
                                  updatedAt |-> clock']
               /\ clock' > orders[k].updatedAt
               /\ \A j \in 1..Len(orders) : j # k => orders'[j] = orders[j]
     /\ Len(orders') < Len(orders) =>
          \E id \in OrderIds(orders) :
            orders' = SelectSeq(orders, LAMBDA d : d.id # id)]_vars

\* an order saved with two products and later updated with the catalog cut
\* to one product: the stored inputs hold one product, the creation time is
\* the old one, and the inputs in memory have moved on since
C24_Witness ==
  \E k \in 1..Len(orders) :
    /\ orders[k].createdAt < orders[k].updatedAt
    /\ orders[k].name = <<"b">>
    /\ Len(orders[k].inputs.products) = 1
    /\ orders[k].inputs # removeUndefined(inputs)
    /\ productDocs # <<>>


---------------------------------------------------------------------------
(* The component with its start-up load, the orders tab and the catalog    *)
(* save (src/App.tsx 1627-1747)                                            *)

\* a product as a document written before the active field existed holds it
LegacyStored(product) ==
  [f \in {g \in DOMAIN product : g # "active" /\ ~IsAbsent(product, g)} |-> product[f]]

\* a stored catalog whose first product has no active field and whose
\* second product is switched off
LegacyProducts ==
  << LegacyStored(CalcProductA),
     removeUndefined([products |-> <<[CalcProductB("20") EXCEPT !.active = "false"]>>]).products[1] >>

\* the 'products' collection found at start-up
InitialProductDocs == {<<>>, <<[products |-> LegacyProducts, updatedAt |-> 0]>>}

\* the 'orders' collection found at start-up
InitialOrders ==
  {<<>>,
   <<[id |-> 0, name |-> <<"a">>,
      inputs |-> [CalcInputs("20", <<>>, Zero) EXCEPT !.products = LegacyProducts],
      createdAt |-> 0, updatedAt |-> 0]>>}

\* the component after its first render: the loadProducts effect has set
\* loading and awaits getSavedProducts, the orders effect did nothing on the
\* calculator tab, the tracking effect consumed isInitialLoad
InitApp ==
  /\ inputs = [containerType |-> "40",
               products |-> getDefaultProducts,
               exchangeRate |-> Rat(16, 5),
               shippingCostUSD |-> Zero,
               unknownExpensesType |-> "percent",
               unknownExpensesValue |-> Int2Num(5)]
  /\ results = ComputeResults(inputs)
  /\ summary = ComputeSummary(results, inputs)
  /\ edits = 0
  /\ orders \in InitialOrders
  /\ productDocs \in InitialProductDocs
  /\ clock = 0
  /\ orderName = <<>>
  /\ showSaveDialog = FALSE
  /\ loading = TRUE
  /\ pending = <<>>
  /\ outcome = "none"
  /\ productsChanged = FALSE
  /\ savedOrders = <<>>
  /\ activeTab = "calculator"
  /\ awaiting = <<[op |-> "loadProducts"]>>
  /\ viewMode = "seller"
  /\ columnVisibility = [key \in ColumnKeys |-> defaultColumnConfig[key].visible]

\* awaiting without its i-th call
Settled(i) == [k \in 1..(Len(awaiting) - 1) |-> IF k < i THEN awaiting[k] ELSE awaiting[k + 1]]

\* setInputs(next) from a load, the render, and then the effect on
\* [inputs.products], which runs after the setProductsChanged(false) of the
\* same batch
LoadInputs(next) ==
  /\ inputs' = next
  /\ results' = ComputeResults(next)
  /\ summary' = ComputeSummary(results', next)
  /\ productsChanged' = TRUE

\* loadProducts after the awaited getSavedProducts settled
loadProductsSettled ==
  /\ \E i \in 1..Len(awaiting) :
       /\ awaiting[i].op = "loadProducts"
       /\ awaiting' = Settled(i)
  /\ \E ok \in BOOLEAN :
       IF ok /\ Len(getSavedProducts(productDocs)) > 0
       THEN LoadInputs([inputs EXCEPT !.products =
                          LoadedCatalog(inputs.products, getSavedProducts(productDocs))])
       ELSE UNCHANGED <<inputs, results, summary, productsChanged>>
  /\ loading' = FALSE
  /\ UNCHANGED <<edits, orders, clock, orderName, showSaveDialog, pending, outcome,
                 productDocs, savedOrders, activeTab, viewVars>>

\* a tab button: the effect on [activeTab] starts loadOrders on the orders
\* tab; the save dialog covers the buttons while it is shown
setActiveTab ==
  /\ ~showSaveDialog
  /\ \E tab \in {"calculator", "orders"} :
       /\ tab # activeTab
       /\ activeTab' = tab
       /\ IF tab = "orders"
          THEN /\ Len(awaiting) < MaxCalls
               /\ awaiting' = Append(awaiting, [op |-> "loadOrders"])
          ELSE UNCHANGED awaiting
  /\ UNCHANGED <<inputs, results, summary, edits, storeVars, productDocs, productsChanged,
                 savedOrders, viewVars>>

\* loadOrders after the awaited getAllOrders settled
loadOrdersSettled ==
  /\ \E i \in 1..Len(awaiting) :
       /\ awaiting[i].op = "loadOrders"
       /\ awaiting' = Settled(i)
  /\ \E ok \in BOOLEAN :
       savedOrders' = IF ok THEN getAllOrders(orders) ELSE savedOrders
  /\ UNCHANGED <<inputs, results, summary, edits, storeVars, productDocs, productsChanged,
                 activeTab, viewVars>>

\* { ...order.inputs, products: order.inputs.products.map(active default) }
InputsWithActive(order) ==
  [order.inputs EXCEPT !.products =
     MapSeq(order.inputs.products, LAMBDA p : WithActiveDefault(ReadProduct(p)))]

\* the load button of an order; the list is rendered on the orders tab while
\* loading is false
handleLoadOrder ==
  /\ activeTab = "orders"
  /\ ~loading
  /\ \E k \in 1..Len(savedOrders) : LoadInputs(InputsWithActive(savedOrders[k]))
  /\ activeTab' = "calculator"
  /\ outcome' = "alert: order loaded"
  /\ UNCHANGED <<edits, orders, clock, orderName, showSaveDialog, loading, pending,
                 productDocs, savedOrders, awaiting, viewVars>>

\* the delete button of an order, confirmed
handleDeleteOrder ==
  /\ activeTab = "orders"
  /\ ~loading
  /\ Len(awaiting) < MaxCalls
  /\ \E k \in 1..Len(savedOrders) :
       awaiting' = Append(awaiting, [op |-> "deleteOrder", orderId |-> savedOrders[k].id])
  /\ loading' = TRUE
  /\ UNCHANGED <<inputs, results, summary, edits, orders, clock, orderName, showSaveDialog,
                 pending, outcome, productDocs, productsChanged, savedOrders, activeTab,
                 viewVars>>

\* handleDeleteOrder after deleteOrder and getAllOrders settled: both
\* resolved, or one of them threw
handleDeleteOrderSettled ==
  /\ \E i \in 1..Len(awaiting) :
       /\ awaiting[i].op = "deleteOrder"
       /\ awaiting' = Settled(i)
       /\ \E deleted \in BOOLEAN, listed \in BOOLEAN :
            /\ listed => deleted
            /\ orders' = IF deleted
                         THEN SelectSeq(orders, LAMBDA d : d.id # awaiting[i].orderId)
                         ELSE orders
            /\ savedOrders' = IF listed THEN getAllOrders(orders') ELSE savedOrders
            /\ outcome' = IF listed THEN "alert: deleted" ELSE "alert: delete failed"
  /\ loading' = FALSE
  /\ UNCHANGED <<inputs, results, summary, edits, clock, orderName, showSaveDialog, pending,
                 productDocs, productsChanged, activeTab, viewVars>>

\* the "save products" button: rendered on the calculator tab while
\* productsChanged, disabled while loading
handleSaveProducts ==
  /\ activeTab = "calculator"
  /\ ~showSaveDialog
  /\ productsChanged
  /\ ~loading
  /\ Len(awaiting) < MaxCalls
  /\ clock + Len(pending) + Len(awaiting) < MaxWrites
  /\ awaiting' = Append(awaiting, [op |-> "saveProducts", products |-> inputs.products])
  /\ loading' = TRUE
  /\ UNCHANGED <<inputs, results, summary, edits, orders, clock, orderName, showSaveDialog,
                 pending, outcome, productDocs, productsChanged, savedOrders, activeTab,
                 viewVars>>

\* handleSaveProducts after the awaited saveProducts settled
handleSaveProductsSettled ==
  /\ \E i \in 1..Len(awaiting) :
       /\ awaiting[i].op = "saveProducts"
       /\ awaiting' = Settled(i)
       /\ \E ok \in BOOLEAN :
            IF ok
            THEN /\ productDocs' = SaveProductsDoc(awaiting[i].products)
                 /\ clock' = clock + 1
                 /\ productsChanged' = FALSE
                 /\ outcome' = "alert: products saved"
            ELSE /\ outcome' = "alert: products save failed"
                 /\ UNCHANGED <<productDocs, clock, productsChanged>>
  /\ loading' = FALSE
  /\ UNCHANGED <<inputs, results, summary, edits, orders, orderName, showSaveDialog, pending,
                 savedOrders, activeTab, viewVars>>

NextApp ==
  \/ loadProductsSettled
  \/ setActiveTab
  \/ loadOrdersSettled
  \/ handleLoadOrder
  \/ handleDeleteOrder
  \/ handleDeleteOrderSettled
  \/ handleSaveProducts
  \/ handleSaveProductsSettled
  \/ handleAddProduct

SpecApp == InitApp /\ [][NextApp]_vars

\* the save dialog used while the start-up load is still awaited
NextSaving ==
  \/ loadProductsSettled
  \/ openSaveDialog
  \/ setOrderName
  \/ cancelSaveDialog
  \/ clickSave
  \/ pressEnter
  \/ handleSaveOrderSettled

SpecSaving == InitApp /\ [][NextSaving]_vars


\* the loaded catalog has a defined active in every product: true where the
\* stored product has no active field, the stored value otherwise
ActiveDefaulted(catalog, stored) ==
  /\ Len(catalog) = Len(stored)
  /\ \A i \in 1..Len(stored) :
       /\ catalog[i].active \in {"true", "false"}
       /\ catalog[i].active = IF "active" \in DOMAIN stored[i] THEN stored[i].active ELSE "true"

\* C23: every product that getSavedProducts returns or handleLoadOrder sets,
\* and so every product of the inputs, has active = true or active = false;
\* where the stored product has no active field the loaded one has true, and
\* a stored false is kept.
C23_LoadedActiveDefined ==
  /\ \A i \in 1..Len(inputs.products) : inputs.products[i].active \in {"true", "false"}
  /\ productDocs # <<>> =>
       ActiveDefaulted(getSavedProducts(productDocs),
                       productDocs[DescIndex(productDocs, 1)].products)
  /\ \A k \in 1..Len(savedOrders) :
       ActiveDefaulted(InputsWithActive(savedOrders[k]).products, savedOrders[k].inputs.products)
  /\ \A k \in 1..Len(orders) :
       ActiveDefaulted(InputsWithActive(orders[k]).products, orders[k].inputs.products)

\* the order stored before the active field existed was loaded through the
\* orders tab: its first product, stored without the field, is active, its
\* second product is still switched off and leaves the results
C23_Witness ==
  /\ Len(savedOrders) = 1
  /\ "active" \notin DOMAIN savedOrders[1].inputs.products[1]
  /\ inputs = InputsWithActive(savedOrders[1])
  /\ inputs.products[1].active = "true"
  /\ inputs.products[2].active = "false"
  /\ Len(results) = 1
  /\ activeTab = "calculator"

\* C28: a step that loads a catalog or an order into the inputs leaves
\* productsChanged false; productsChanged turns true only in a step that is
\* a user edit of the inputs; a step that stores the catalog leaves it false.
C28_LoadIsNotAnEdit ==
  [][/\ (inputs' # inputs /\ edits' = edits) => ~productsChanged'
     /\ (~productsChanged /\ productsChanged') => edits' = edits + 1
     /\ productDocs' # productDocs => ~productsChanged']_vars

\* C29: at most one saveOrder started by handleSaveOrder is awaited at any
\* time, and loading is true for as long as one is awaited.
C29_SingleSaveInFlight ==
  /\ Len(pending) <= 1
  /\ pending # <<>> => loading

=============================================================================
